---- MODULE Spec2Model ----
(***************************************************************************)
(* The two webhook handlers of functions/index.js, jiraOrchestrator and    *)
(* jiraResearchOrchestrator, with the helpers transitionJiraIssue and      *)
(* postJiraComment, as a state machine.                                    *)
(*                                                                         *)
(* Every await of the source is a point where other invocations may run:   *)
(* an invocation's pc names the outbound call it is waiting for, and one   *)
(* action per call models the arrival of the answer and the code that      *)
(* runs up to the next await (or up to the response).  The answer of a     *)
(* call is one of                                                          *)
(*    ok     a 2xx response whose body is read,                            *)
(*    error  a complete non-2xx response,                                  *)
(*    throw  fetch, or the reading of the response body, rejects.          *)
(* The issue tracker of the code-hosting service is the only state shared  *)
(* between invocations; its search is answered from the issues that exist  *)
(* at the moment the answer is produced.                                   *)
(***************************************************************************)
EXTENDS Integers, Sequences, FiniteSets, TLC

\* ------------------------------------------------------------------ bounds

\* invocations (webhook deliveries) of the concurrent specification
MaxInv == 2
\* longest list of transitions the ticketing service answers with
MaxTransitions == 2
\* issues in the tracker before the single invocation of SpecOne starts
MaxExisting == 2
\* how far the lengths of the comment bodies of SpecPreview go below and
\* beyond the preview limit
MaxOver == 2

\* --------------------------------------------------------------- constants

WEBHOOK_SECRET == "s3cret"
JIRA_BASE == "https://jira.example.com"
PreviewLimit == 1000
DateLength == 10

Implementation == "implementation"
Research == "research"
Handlers == {Implementation, Research}

Inv == 1 .. MaxInv

\* ----------------------------------------------------------- string helpers

UpperCase == "ABCDEFGHIJKLMNOPQRSTUVWXYZ"
LowerCase == "abcdefghijklmnopqrstuvwxyz"

\* String.prototype.toLowerCase on one character (ASCII letters)
LowerChar(c) ==
  IF \E k \in 1 .. Len(UpperCase) : SubSeq(UpperCase, k, k) = c
  THEN LET k == CHOOSE j \in 1 .. Len(UpperCase) : SubSeq(UpperCase, j, j) = c
       IN  SubSeq(LowerCase, k, k)
  ELSE c

RECURSIVE toLowerCase(_)
toLowerCase(s) ==
  IF Len(s) = 0 THEN ""
  ELSE LowerChar(SubSeq(s, 1, 1)) \o toLowerCase(SubSeq(s, 2, Len(s)))

\* String.prototype.includes
includes(s, sub) ==
  \E k \in 0 .. (Len(s) - Len(sub)) : SubSeq(s, k + 1, k + Len(sub)) = sub

\* String.prototype.substring(0, n)
substring0(s, n) == IF Len(s) > n THEN SubSeq(s, 1, n) ELSE s

\* Array.prototype.join
RECURSIVE join(_, _)
join(parts, sep) ==
  IF Len(parts) = 0 THEN ""
  ELSE IF Len(parts) = 1 THEN parts[1]
  ELSE parts[1] \o sep \o join(Tail(parts), sep)

IsSpace(c) == c \in {" ", "\n", "\t", "\r"}

\* String.prototype.trim
RECURSIVE trim(_)
trim(s) ==
  IF Len(s) = 0 THEN ""
  ELSE IF IsSpace(SubSeq(s, 1, 1)) THEN trim(SubSeq(s, 2, Len(s)))
  ELSE IF IsSpace(SubSeq(s, Len(s), Len(s))) THEN trim(SubSeq(s, 1, Len(s) - 1))
  ELSE s

\* html.replace(/<[^>]+>/g, ""): a tag is "<", at least one character that
\* is not ">", and the first ">" after them
RECURSIVE removeTags(_)
removeTags(s) ==
  IF Len(s) = 0 THEN ""
  ELSE IF /\ SubSeq(s, 1, 1) = "<"
          /\ Len(s) >= 3
          /\ SubSeq(s, 2, 2) # ">"
          /\ \E q \in 3 .. Len(s) : SubSeq(s, q, q) = ">"
       THEN LET q == CHOOSE j \in 3 .. Len(s) :
                       /\ SubSeq(s, j, j) = ">"
                       /\ \A m \in 3 .. (j - 1) : SubSeq(s, m, m) # ">"
            IN  removeTags(SubSeq(s, q + 1, Len(s)))
       ELSE SubSeq(s, 1, 1) \o removeTags(SubSeq(s, 2, Len(s)))

stripHtml(html) == trim(removeTags(html))

\* stands for the one-character ellipsis U+2026 of the source
Ellipsis == "~"

\* ----------------------------------------------------------------- requests

Fields == {"issueKey", "summary", "description", "repo"}
Keys == {"AB-1", "AB-2"}

FieldValues(f) ==
  CASE f = "issueKey"    -> Keys \cup {""}
    [] f = "summary"     -> {"Fix login", ""}
    [] f = "description" -> {"Login fails", ""}
    [] f = "repo"        -> {"acme/web", ""}

\* req.body: a JSON object with any subset of the fields ("" is the empty
\* string, a field outside the domain is undefined)
AllBodies ==
  UNION { { b \in [D -> UNION {FieldValues(f) : f \in Fields}] :
              \A f \in D : b[f] \in FieldValues(f) } : D \in SUBSET Fields }

NoHeader == [present |-> FALSE, value |-> ""]
Hdr(v) == [present |-> TRUE, value |-> v]
AllSecrets == {NoHeader, Hdr(""), Hdr(WEBHOOK_SECRET), Hdr("wrong")}

AllRequests ==
  [handler : Handlers, method : {"POST", "GET"}, secret : AllSecrets, body : AllBodies]

ValidBody(k) ==
  [f \in Fields |->
     CASE f = "issueKey"    -> k
       [] f = "summary"     -> "Fix login"
       [] f = "description" -> "Login fails"
       [] f = "repo"        -> "acme/web"]

\* the webhooks the ticketing automation sends: well-formed, with the secret
WebhookRequests ==
  { [handler |-> h, method |-> "POST", secret |-> Hdr(WEBHOOK_SECRET), body |-> ValidBody(k)] :
      h \in Handlers, k \in Keys }

\* well-formed webhooks whose key or summary may hold a colon and a space
TitleKeys == {"AB-1", "AB: 1", "AB:"}
TitleSummaries == {"Fix login", "Fix: login", ": fix", "a: b: c"}

TitleRequests ==
  { [handler |-> h, method |-> "POST", secret |-> Hdr(WEBHOOK_SECRET),
     body |-> [ValidBody(k) EXCEPT !.summary = t]] :
      h \in Handlers, k \in TitleKeys, t \in TitleSummaries }

NoRequest == [handler |-> "", method |-> "", secret |-> NoHeader, body |-> ValidBody("")]

\* JavaScript truthiness of a body field and of the header value
truthy(b, f) == f \in DOMAIN b /\ b[f] # ""
providedSecret(r) == r.secret.present /\ r.secret.value # ""

\* ------------------------------------------------------- answers of calls

Outcomes == {"ok", "error", "throw"}
\* the issue-creation POST may also be carried out with its answer lost
CreateOutcomes == Outcomes \cup {"throw_after_create"}

Comment(display, name, created, rendered, body) ==
  [author |-> [displayName |-> display, name |-> name],
   created |-> created, renderedBody |-> rendered, body |-> body]

AllCommentLists ==
  { << >>,
    << Comment("Ann", "", "2024-05-01T10:00:00.000+0000", "<p>Looks <b>good</b></p>", ""),
       Comment("", "bob", "", "", "plain text") >> }

WebhookCommentLists == { << >> }

\* comment texts of every length near zero and near the preview limit, some
\* of them ending in the ellipsis character themselves
Ten == "abcdefghij"
Hundred == Ten \o Ten \o Ten \o Ten \o Ten \o Ten \o Ten \o Ten \o Ten \o Ten
Filler ==
  Hundred \o Hundred \o Hundred \o Hundred \o Hundred \o Hundred \o Hundred \o Hundred
    \o Hundred \o Hundred \o Hundred

PreviewLengths == (0 .. MaxOver) \cup ((PreviewLimit - MaxOver) .. (PreviewLimit + MaxOver))

PreviewBodies ==
  { SubSeq(Filler, 1, n) : n \in PreviewLengths }
    \cup { SubSeq(Filler, 1, n - 1) \o "~" : n \in PreviewLengths \ {0} }

\* one comment whose body is a plain string
PreviewCommentLists ==
  { << Comment("Ann", "", "2024-05-01T10:00:00.000+0000", "", body) >> : body \in PreviewBodies }

Transition(id, name) == [id |-> id, name |-> name]
JiraTransitions ==
  { Transition("11", "To Do"), Transition("21", "In Progress"),
    Transition("31", "Start Work"), Transition("41", "Done") }

Injective(s) == \A a, b \in DOMAIN s : s[a] = s[b] => a = b
Orderings(S) == { s \in [1 .. Cardinality(S) -> S] : Injective(s) }

AllTransitionLists ==
  UNION { { s \in [1 .. n -> JiraTransitions] : Injective(s) } : n \in 0 .. MaxTransitions }

WebhookTransitionLists == { << Transition("21", "In Progress") >> }

\* ------------------------------------------------ comments and issue body

NoComments == "_No comments_"

\* (c.author && (c.author.displayName || c.author.name)) || "unknown"
authorOf(c) ==
  IF c.author.displayName # "" THEN c.author.displayName
  ELSE IF c.author.name # "" THEN c.author.name
  ELSE "unknown"

\* c.created ? c.created.substring(0, 10) : ""
createdOf(c) == IF c.created # "" THEN substring0(c.created, DateLength) ELSE ""

\* c.renderedBody ? stripHtml(c.renderedBody) : (typeof c.body === "string" ? c.body : "")
bodyOf(c) == IF c.renderedBody # "" THEN stripHtml(c.renderedBody) ELSE c.body

\* a slip: a body of exactly the limit is cut too
preview_atLimit(body) ==
  IF Len(body) >= PreviewLimit THEN substring0(body, PreviewLimit - 1) \o Ellipsis ELSE body

\* body.length > 1000 ? `${body.substring(0, 1000)}...` : body
preview(body) ==
  IF Len(body) > PreviewLimit THEN substring0(body, PreviewLimit) \o Ellipsis ELSE body

renderComment(c) ==
  "- " \o authorOf(c) \o " (" \o createdOf(c) \o "):\n  " \o preview(bodyOf(c))

\* a slip: commentsMarkdown is set only on a successful fetch
commentsMarkdownOf_unsetOnFailure(o, cs) ==
  IF o = "ok"
  THEN IF Len(cs) > 0
       THEN join([k \in 1 .. Len(cs) |-> renderComment(cs[k])], "\n\n")
       ELSE NoComments
  ELSE ""

\* commentsMarkdown after the comment fetch was answered by outcome o with
\* the comment list cs
commentsMarkdownOf(o, cs) ==
  IF o = "ok" /\ Len(cs) > 0
  THEN join([k \in 1 .. Len(cs) |-> renderComment(cs[k])], "\n\n")
  ELSE NoComments

descriptionOf(b) == IF truthy(b, "description") THEN b.description ELSE "(no description)"

jiraUrl(issueKey) == JIRA_BASE \o "/browse/" \o issueKey

\* issueBody of the two handlers
issueBody(h, b, markdown) ==
  IF h = Implementation
  THEN join(<< "@claude implement this:", "",
               "## Jira Description", descriptionOf(b), "",
               "## Jira Comments", markdown, "",
               "## Source", "- Jira: " \o jiraUrl(b.issueKey) >>, "\n")
  ELSE join(<< "@claude research this:", "",
               "## Jira Description", descriptionOf(b), "",
               "## Jira Comments", markdown, "",
               "## Source", "- Jira: " \o jiraUrl(b.issueKey), "",
               "## Instructions",
               "Research the codebase and create a detailed implementation plan for this ticket.",
               "The plan should be written back to the Jira ticket description.",
               "After completing the research, move the ticket back to \"To Do\" and unassign it." >>,
            "\n")

\* a slip: no space after the colon
issueTitle_noSpace(h, b) ==
  IF h = Implementation
  THEN b.issueKey \o ":" \o b.summary
  ELSE b.issueKey \o ":[AI Research] " \o b.summary

issueTitle(h, b) ==
  IF h = Implementation
  THEN b.issueKey \o ": " \o b.summary
  ELSE b.issueKey \o ": [AI Research] " \o b.summary

\* a slip: one label set for both handlers
issueLabels_same(h) == {"from-jira", "ai-task"}

issueLabels(h) ==
  IF h = Implementation THEN {"from-jira", "ai-task"} ELSE {"from-jira", "ai-research"}

\* the JSON body of the issue-creation POST
createPayload(h, b, markdown) ==
  [title |-> issueTitle(h, b), body |-> issueBody(h, b, markdown), labels |-> issueLabels(h)]

NoPayload == [title |-> "", body |-> "", labels |-> {}]

\* ------------------------------------------------------- transition helper

targetNames == << "in progress", "start progress", "begin", "start work", "working" >>

\* targetNames.some(name => t.name.toLowerCase().includes(name.toLowerCase()))
someTargetName(name) ==
  \E k \in 1 .. Len(targetNames) :
    includes(toLowerCase(name), toLowerCase(targetNames[k]))

\* the transitions of the workflow on which the predicate of find is true,
\* computed once
MatchingTransitions == { t \in JiraTransitions : someTargetName(t.name) }

matchesTarget(t) == t \in MatchingTransitions

\* transitions.find(t => ...): the index of the first matching transition, 0 if none
findTarget(transitions) ==
  IF \E k \in 1 .. Len(transitions) : matchesTarget(transitions[k])
  THEN CHOOSE k \in 1 .. Len(transitions) :
         /\ matchesTarget(transitions[k])
         /\ \A j \in 1 .. (k - 1) : ~matchesTarget(transitions[j])
  ELSE 0

\* a slip: the ids of the transitions instead of their names
transitionNames_ids(transitions) == [k \in 1 .. Len(transitions) |-> transitions[k].id]

transitionNames(transitions) == [k \in 1 .. Len(transitions) |-> transitions[k].name]

NoTransition == Transition("", "")
NoResult == [success |-> FALSE, error |-> "not_attempted"]
NoListing == [status |-> "none", transitions |-> << >>]

\* -------------------------------------------------------------------- state

VARIABLES
  issues,            \* the issues of the code-hosting repository, by number
  createdBy,         \* per issue, the invocation whose POST created it (0: none)
  pc,                \* per invocation, the call it waits for
  req,               \* per invocation, the request it handles
  searchData,        \* per invocation, the answer of its dedup search
  searchedAt,        \* per invocation, the tracker when the search was answered
  commentsResp,      \* per invocation, how the comment fetch was answered
  commentsData,      \* per invocation, the comments the fetch answered with
  commentsMarkdown,  \* per invocation, the rendered comments
  ghReq,             \* per invocation, the body of its issue-creation POST
  ghResp,            \* per invocation, how the issue-creation POST was answered
  issueData,         \* per invocation, the issue the POST answered with
  tResp,             \* per invocation, the answer of the transition listing
  target,            \* per invocation, the transition it applies
  transitionResult,  \* per invocation, the result of transitionJiraIssue
  notifyResp,        \* per invocation, how the notification POST was answered
  calls,             \* per invocation, the outbound calls it has made, in order
  res                \* per invocation, the responses it has sent, in order

vars == << issues, createdBy, pc, req, searchData, searchedAt, commentsResp,
           commentsData,
           commentsMarkdown, ghReq, ghResp, issueData, tResp, target,
           transitionResult, notifyResp, calls, res >>

NoSearch == [status |-> "none", total_count |-> 0, items |-> << >>]
NoSnapshot == [count |-> 0, closed |-> {}]
NoAnswer == [status |-> "none", text |-> ""]
NoIssueData == [number |-> 0, html_url |-> ""]

\* ------------------------------------------------- the code-hosting service

\* the text search of the issue tracker: the query term occurs in the issue
Mentions(issue, key) == includes(issue.title, key) \/ includes(issue.body, key)

\* a slip: the research query without state:open
SearchHits_anyState(h, key) ==
  { n \in 1 .. Len(issues) :
      /\ Mentions(issues[n], key)
      /\ h = Research => "ai-research" \in issues[n].labels }

\* the numbers of the issues that match the handler's search query:
\*   implementation  q=KEY repo:.. type:issue
\*   research        q=KEY repo:.. type:issue label:ai-research state:open
SearchHits(h, key) ==
  { n \in 1 .. Len(issues) :
      /\ Mentions(issues[n], key)
      /\ h = Research => ("ai-research" \in issues[n].labels /\ issues[n].state = "open") }

htmlUrl(repo, n) == "https://github.com/" \o repo \o "/issues/" \o ToString(n)

NewIssue(n, payload) ==
  [number |-> n, title |-> payload.title, body |-> payload.body,
   labels |-> payload.labels, state |-> "open"]

ClosedIssues == { n \in 1 .. Len(issues) : issues[n].state = "closed" }

\* ------------------------------------------------------------------ actions

\* a slip: the response is sent twice
Respond_twice(i, status, body) ==
  /\ res' = [res EXCEPT ![i] = Append(Append(@, [status |-> status, body |-> body]),
                                      [status |-> status, body |-> body])]
  /\ pc' = [pc EXCEPT ![i] = "done"]

\* res.status(status).json(body), or res.json(body) with status 200
Respond(i, status, body) ==
  /\ res' = [res EXCEPT ![i] = Append(@, [status |-> status, body |-> body])]
  /\ pc' = [pc EXCEPT ![i] = "done"]

\* a slip: the call is sent a second time
Await_again(i, op) ==
  /\ calls' = [calls EXCEPT ![i] = Append(Append(@, op), op)]
  /\ pc' = [pc EXCEPT ![i] = op]
  /\ UNCHANGED res

\* the outbound call op is started and awaited
Await(i, op) ==
  /\ calls' = [calls EXCEPT ![i] = Append(@, op)]
  /\ pc' = [pc EXCEPT ![i] = op]
  /\ UNCHANGED res

\* a slip: the message is left out
internalError_noMessage == [error |-> "internal"]

\* the top-level catch: { error: "internal", message: String(err) }
internalError == [error |-> "internal", message |-> "FetchError: request failed"]

\* a slip: every method is served
methodAllowed_any(r) == TRUE

\* req.method === "POST"
methodAllowed(r) == r.method = "POST"

\* a slip: the secret is never compared
secretRejected_never(r) == FALSE

\* a slip: a request without the header is rejected too
secretRejected_headerRequired(r) == ~(providedSecret(r) /\ r.secret.value = WEBHOOK_SECRET)

\* providedSecret && providedSecret !== WEBHOOK_SECRET.value()
secretRejected(r) == providedSecret(r) /\ r.secret.value # WEBHOOK_SECRET

\* a slip: repo is not required
missingFields_repoOptional(b) == ~truthy(b, "issueKey") \/ ~truthy(b, "summary")

\* !issueKey || !summary || !repo
missingFields(b) == ~truthy(b, "issueKey") \/ ~truthy(b, "summary") \/ ~truthy(b, "repo")

\* a slip: the body is looked at before the method and the secret
validate_fieldsFirst(r) ==
  IF missingFields(r.body) THEN 400
  ELSE IF ~methodAllowed(r) THEN 405
  ELSE IF secretRejected(r) THEN 401
  ELSE 0

\* the status of the first check that the request fails, 0 when it passes
\* them all
validate(r) ==
  IF ~methodAllowed(r) THEN 405
  ELSE IF secretRejected(r) THEN 401
  ELSE IF missingFields(r.body) THEN 400
  ELSE 0

\* the body sent with each rejection
rejection(status) ==
  CASE status = 405 -> [text |-> "Method Not Allowed"]
    [] status = 401 -> [error |-> "invalid_secret"]
    [] status = 400 -> [error |-> "missing_fields",
                        required |-> << "issueKey", "summary", "repo" >>]

\* A request arrives: method, secret and required fields are checked and the
\* dedup search is sent.
Receive(i, r) ==
  /\ pc[i] = "idle"
  /\ req' = [req EXCEPT ![i] = r]
  /\ IF validate(r) # 0
     THEN Respond(i, validate(r), rejection(validate(r))) /\ UNCHANGED calls
     ELSE Await(i, "search")
  /\ UNCHANGED << issues, createdBy, searchData, searchedAt, commentsResp,
                  commentsData, commentsMarkdown,
                  ghReq, ghResp, issueData, tResp, target, transitionResult, notifyResp >>

\* a slip: the number of the last match instead of the first
skippedBody_lastMatch(h, data) ==
  [ok |-> TRUE, skipped |-> TRUE,
   reason |-> IF h = Implementation THEN "issue_exists" ELSE "research_request_exists",
   issue_number |-> data.items[Len(data.items)].number]

skippedBody(h, data) ==
  [ok |-> TRUE, skipped |-> TRUE,
   reason |-> IF h = Implementation THEN "issue_exists" ELSE "research_request_exists",
   issue_number |-> data.items[1].number]

\* a slip: one match is tolerated
alreadyExists_offByOne(data) == data.status = "ok" /\ data.total_count > 1

\* searchResp.ok && searchData.total_count > 0
alreadyExists(data) == data.status = "ok" /\ data.total_count > 0

\* a slip: a non-2xx answer of the search fails the request
afterSearch_blocking(data) ==
  IF data.status # "ok" THEN "internal"
  ELSE IF data.total_count > 0 THEN "skipped"
  ELSE "comments"

\* where the handler goes once the search is answered: a rejected fetch
\* reaches the top-level catch, a non-2xx answer is passed over
afterSearch(data) ==
  IF data.status = "throw" THEN "internal"
  ELSE IF alreadyExists(data) THEN "skipped"
  ELSE "comments"

\* The dedup search is answered by outcome o: when ok, with the matching
\* issues in some order of the service's choosing.
SearchResponds(i, o) ==
  /\ pc[i] = "search"
  /\ \E order \in Orderings(SearchHits(req[i].handler, req[i].body.issueKey)) :
       LET items == [k \in 1 .. Len(order) |-> [number |-> order[k]]]
           data == IF o = "ok"
                   THEN [status |-> "ok", total_count |-> Len(items), items |-> items]
                   ELSE [status |-> o, total_count |-> 0, items |-> << >>]
       IN  /\ searchData' = [searchData EXCEPT ![i] = data]
           /\ searchedAt' = [searchedAt EXCEPT ![i] =
                               [count |-> Len(issues), closed |-> ClosedIssues]]
           /\ CASE afterSearch(data) = "internal" ->
                     Respond(i, 500, internalError) /\ UNCHANGED calls
                [] afterSearch(data) = "skipped" ->
                     Respond(i, 200, skippedBody(req[i].handler, data)) /\ UNCHANGED calls
                [] afterSearch(data) = "comments" ->
                     Await(i, "comments")
  /\ UNCHANGED << issues, createdBy, req, commentsResp,
                  commentsData, commentsMarkdown, ghReq, ghResp,
                  issueData, tResp, target, transitionResult, notifyResp >>

\* The comment fetch is answered; the issue body is composed and the
\* issue-creation POST is sent.
CommentsResponds(i, o, cs) ==
  /\ pc[i] = "comments"
  /\ LET markdown == commentsMarkdownOf(o, cs)
     IN  /\ commentsResp' = [commentsResp EXCEPT ![i] = o]
         /\ commentsData' = [commentsData EXCEPT ![i] = IF o = "ok" THEN cs ELSE << >>]
         /\ commentsMarkdown' = [commentsMarkdown EXCEPT ![i] = markdown]
         /\ ghReq' = [ghReq EXCEPT ![i] = createPayload(req[i].handler, req[i].body, markdown)]
  /\ Await(i, "create")
  /\ UNCHANGED << issues, createdBy, req, searchData, searchedAt, ghResp, issueData,
                  tResp, target, transitionResult, notifyResp >>

\* a slip: the status of the issue-creation answer is not looked at
ghOk_unchecked(resp) == TRUE

\* ghResp.ok
ghOk(resp) == resp.status = "ok"

\* a slip: the notification is sent in place of the transition step
afterCreate_notifyFirst(h) == "notify"

\* a slip: the transition is applied without the listing
afterCreate_applyUnlisted(h) == IF h = Implementation THEN "transition" ELSE "notify"

\* a slip: the research handler takes the transition step too
afterCreate_alwaysTransitions(h) == "transitions"

\* what the handler does after a successful issue creation
afterCreate(h) == IF h = Implementation THEN "transitions" ELSE "notify"

\* The issue-creation POST is answered.
CreateResponds(i, o) ==
  /\ pc[i] = "create"
  /\ LET n == Len(issues) + 1
         resp == [status |-> IF o = "throw_after_create" THEN "throw" ELSE o,
                  text |-> IF o = "error" THEN "Validation Failed" ELSE ""]
     IN  /\ ghResp' = [ghResp EXCEPT ![i] = resp]
         /\ IF o \in {"ok", "throw_after_create"}
            THEN /\ issues' = Append(issues, NewIssue(n, ghReq[i]))
                 /\ createdBy' = Append(createdBy, i)
            ELSE UNCHANGED << issues, createdBy >>
         /\ IF resp.status = "throw"
            THEN Respond(i, 500, internalError) /\ UNCHANGED << issueData, calls >>
            ELSE IF ~ghOk(resp)
            THEN /\ Respond(i, 502, [error |-> "github_request_failed", details |-> resp.text])
                 /\ UNCHANGED << issueData, calls >>
            ELSE /\ issueData' = [issueData EXCEPT ![i] =
                                    [number |-> n, html_url |-> htmlUrl(req[i].body.repo, n)]]
                 /\ Await(i, afterCreate(req[i].handler))
  /\ UNCHANGED << req, searchData, searchedAt, commentsResp,
                  commentsData, commentsMarkdown, ghReq,
                  tResp, target, transitionResult, notifyResp >>

\* transitionJiraIssue, from the answer of the transition listing up to its
\* return or up to the transition POST
TransitionsResponds(i, o, ts) ==
  /\ pc[i] = "transitions"
  /\ tResp' = [tResp EXCEPT ![i] =
                 [status |-> o, transitions |-> IF o = "ok" THEN ts ELSE << >>]]
  /\ LET k == findTarget(ts)
     IN  IF o = "ok" /\ k # 0
         THEN /\ target' = [target EXCEPT ![i] = ts[k]]
              /\ UNCHANGED transitionResult
              /\ Await(i, "transition")
         ELSE /\ UNCHANGED target
              /\ transitionResult' = [transitionResult EXCEPT ![i] =
                   CASE o = "error" -> [success |-> FALSE, error |-> "fetch_transitions_failed",
                                        status |-> 404]
                     [] o = "throw" -> [success |-> FALSE, error |-> "exception",
                                        message |-> "FetchError: request failed"]
                     [] o = "ok"    -> [success |-> FALSE, error |-> "transition_not_found",
                                        available |-> transitionNames(ts)]]
              /\ Await(i, "notify")
  /\ UNCHANGED << issues, createdBy, req, searchData, searchedAt, commentsResp,
                  commentsData,
                  commentsMarkdown, ghReq, ghResp, issueData, notifyResp >>

\* transitionJiraIssue, from the answer of the transition POST to its return
TransitionResponds(i, o) ==
  /\ pc[i] = "transition"
  /\ transitionResult' = [transitionResult EXCEPT ![i] =
       CASE o = "ok"    -> [success |-> TRUE, transitionName |-> target[i].name]
         [] o = "error" -> [success |-> FALSE, error |-> "transition_failed",
                            status |-> 400, details |-> "Transition is not valid"]
         [] o = "throw" -> [success |-> FALSE, error |-> "exception",
                            message |-> "FetchError: request failed"]]
  /\ Await(i, "notify")
  /\ UNCHANGED << issues, createdBy, req, searchData, searchedAt, commentsResp,
                  commentsData,
                  commentsMarkdown, ghReq, ghResp, issueData, tResp, target, notifyResp >>

\* a slip: the success flag follows the transition
createdBody_okFromTransition(h, data, result) ==
  IF h = Implementation
  THEN [ok |-> result.success, issue_number |-> data.number, issue_url |-> data.html_url,
        jira_transition |-> result]
  ELSE [ok |-> TRUE, issue_number |-> data.number, issue_url |-> data.html_url,
        action |-> "research_request_created"]

\* a slip: the response of the skipped case is sent after a creation
createdBody_asSkipped(h, data, result) ==
  [ok |-> TRUE, skipped |-> TRUE,
   reason |-> IF h = Implementation THEN "issue_exists" ELSE "research_request_exists",
   issue_number |-> data.number]

createdBody(h, data, result) ==
  IF h = Implementation
  THEN [ok |-> TRUE, issue_number |-> data.number, issue_url |-> data.html_url,
        jira_transition |-> result]
  ELSE [ok |-> TRUE, issue_number |-> data.number, issue_url |-> data.html_url,
        action |-> "research_request_created"]

\* a slip: the catch of postJiraComment rethrows
postJiraComment_rethrows(o) ==
  CASE o = "ok"    -> "true"
    [] o = "error" -> "false"
    [] o = "throw" -> "throw"

\* how postJiraComment completes when its POST is answered by outcome o: it
\* returns true, or false after a non-2xx answer or an exception
postJiraComment(o) ==
  CASE o = "ok"    -> "true"
    [] o = "error" -> "false"
    [] o = "throw" -> "false"

\* postJiraComment is answered and returns (its value is not used), and the
\* handler responds.
NotifyResponds(i, o) ==
  /\ pc[i] = "notify"
  /\ o \in Outcomes
  /\ notifyResp' = [notifyResp EXCEPT ![i] = o]
  /\ IF postJiraComment(o) = "throw"
     THEN Respond(i, 500, internalError)
     ELSE Respond(i, 200, createdBody(req[i].handler, issueData[i], transitionResult[i]))
  /\ UNCHANGED << issues, createdBy, req, searchData, searchedAt, commentsResp,
                  commentsData,
                  commentsMarkdown, ghReq, ghResp, issueData, tResp, target,
                  transitionResult, calls >>

\* A user of the code-hosting service closes an issue.
CloseIssue(n) ==
  /\ n \in 1 .. Len(issues)
  /\ issues[n].state = "open"
  /\ issues' = [issues EXCEPT ![n].state = "closed"]
  /\ UNCHANGED << createdBy, pc, req, searchData, searchedAt, commentsResp,
                  commentsData,
                  commentsMarkdown, ghReq, ghResp, issueData, tResp, target,
                  transitionResult, calls, res, notifyResp >>

\* ----------------------------------------------------------- specifications

InitInvocations ==
  /\ pc = [i \in Inv |-> "idle"]
  /\ req = [i \in Inv |-> NoRequest]
  /\ searchData = [i \in Inv |-> NoSearch]
  /\ searchedAt = [i \in Inv |-> NoSnapshot]
  /\ commentsResp = [i \in Inv |-> "none"]
  /\ commentsData = [i \in Inv |-> << >>]
  /\ commentsMarkdown = [i \in Inv |-> NoComments]
  /\ ghReq = [i \in Inv |-> NoPayload]
  /\ ghResp = [i \in Inv |-> NoAnswer]
  /\ issueData = [i \in Inv |-> NoIssueData]
  /\ tResp = [i \in Inv |-> NoListing]
  /\ target = [i \in Inv |-> NoTransition]
  /\ transitionResult = [i \in Inv |-> NoResult]
  /\ notifyResp = [i \in Inv |-> "none"]
  /\ calls = [i \in Inv |-> << >>]
  /\ res = [i \in Inv |-> << >>]

\* one step of invocation i: the requests, the outcomes of the calls to the
\* ticketing service and the lists it answers with are drawn from the given
\* sets, the outcomes of the calls to the code-hosting service from all
HandlerStep(i, requests, jiraOutcomes, commentLists, transitionLists) ==
  \/ pc[i] = "idle" /\ \E r \in requests : Receive(i, r)
  \/ \E o \in Outcomes : SearchResponds(i, o)
  \/ \E o \in jiraOutcomes : \E cs \in commentLists : CommentsResponds(i, o, cs)
  \/ \E o \in CreateOutcomes : CreateResponds(i, o)
  \/ \E o \in jiraOutcomes : \E ts \in transitionLists : TransitionsResponds(i, o, ts)
  \/ \E o \in jiraOutcomes : TransitionResponds(i, o)
  \/ \E o \in jiraOutcomes : NotifyResponds(i, o)

\* the call that invocation i awaits is answered, in any of the ways above
CallReturns(i) ==
  \/ \E o \in Outcomes : SearchResponds(i, o)
  \/ \E o \in Outcomes : \E cs \in AllCommentLists : CommentsResponds(i, o, cs)
  \/ \E o \in CreateOutcomes : CreateResponds(i, o)
  \/ \E o \in Outcomes : \E ts \in AllTransitionLists : TransitionsResponds(i, o, ts)
  \/ \E o \in Outcomes : TransitionResponds(i, o)
  \/ \E o \in Outcomes : NotifyResponds(i, o)

\* Webhooks of the ticketing automation, handled concurrently, on an empty
\* tracker; the ticketing service answers or refuses.
WebhookOutcomes == {"ok", "error"}

Init ==
  /\ issues = << >>
  /\ createdBy = << >>
  /\ InitInvocations

Next ==
  \/ \E i \in Inv : HandlerStep(i, WebhookRequests, WebhookOutcomes,
                              WebhookCommentLists, WebhookTransitionLists)
  \/ \E n \in 1 .. Len(issues) : CloseIssue(n)

Spec == Init /\ [][Next]_vars

\* One invocation handling a webhook, with any answers of the services and a
\* tracker that already holds issues created by earlier invocations for one
\* of the tickets, some of them closed since.
ExistingKeys == {"AB-1"}

ExistingIssue(n, h, k, state) ==
  [NewIssue(n, createPayload(h, ValidBody(k), NoComments)) EXCEPT !.state = state]

ExistingTrackers ==
  UNION { { [n \in 1 .. len |-> ExistingIssue(n, kind[n][1], kind[n][2], kind[n][3])] :
              kind \in [1 .. len -> Handlers \X ExistingKeys \X {"open", "closed"}] } :
          len \in 0 .. MaxExisting }

InitOne ==
  /\ issues \in ExistingTrackers
  /\ createdBy = [n \in 1 .. Len(issues) |-> 0]
  /\ InitInvocations

NextOne == HandlerStep(1, WebhookRequests, Outcomes, AllCommentLists, AllTransitionLists)

SpecOne == InitOne /\ [][NextOne]_vars

\* One invocation handling any request, well-formed or not, with any answers
\* of the services, on a tracker that is empty or holds one issue.
RequestTrackers == { t \in ExistingTrackers : Len(t) <= 1 }

InitRequests ==
  /\ issues \in RequestTrackers
  /\ createdBy = [n \in 1 .. Len(issues) |-> 0]
  /\ InitInvocations

NextRequests == HandlerStep(1, AllRequests, Outcomes, AllCommentLists, AllTransitionLists)

SpecRequests == InitRequests /\ [][NextRequests]_vars

\* The same, where every outbound call eventually returns or throws: the
\* awaited answer, once due, does arrive.
SpecReturns == InitRequests /\ [][NextRequests]_vars /\ WF_vars(CallReturns(1))

\* One invocation on an empty tracker whose comment fetch answers with one
\* comment of a length near the preview limit.
NextPreview ==
  HandlerStep(1, WebhookRequests, WebhookOutcomes, PreviewCommentLists, WebhookTransitionLists)

SpecPreview == Init /\ [][NextPreview]_vars

\* One invocation on an empty tracker for a webhook whose key or summary may
\* hold a colon and a space.
NextTitles ==
  HandlerStep(1, TitleRequests, WebhookOutcomes, WebhookCommentLists, WebhookTransitionLists)

SpecTitles == Init /\ [][NextTitles]_vars

\* ------------------------------------------------------------------- claims

Done(i) == pc[i] = "done"
Handled(i) == req[i].handler
KeyOf(i) == req[i].body.issueKey

\* the request type an issue belongs to, and the tickets it is about
IssueHandler(issue) == IF "ai-research" \in issue.labels THEN Research ELSE Implementation
SamePair(a, b) ==
  /\ IssueHandler(a) = IssueHandler(b)
  /\ \E k \in Keys : Mentions(a, k) /\ Mentions(b, k)

\* the response status that the answer of the issue-creation POST calls for
StatusByCreation(i) ==
  /\ Len(res[i]) = 1
  /\ res[i][1].status = CASE ghResp[i].status = "ok"    -> 200
                          [] ghResp[i].status = "error" -> 502
                          [] ghResp[i].status = "throw" -> 500
                          [] OTHER                      -> 0

\* C1 (as stated): after any interleaving of invocations, at most one hosted
\* issue exists per (ticketKey, requestType) pair.
C1_AtMostOnePerPair ==
  \A n, m \in 1 .. Len(issues) : SamePair(issues[n], issues[m]) => n = m

\* C1 (amended): a second issue for a (ticketKey, requestType) pair is created
\* only by an invocation whose dedup search failed with a non-success status,
\* or was answered before the earlier issue existed, or (research) was
\* answered when the earlier issue was closed.
C1_SecondIssueOnlyPastTheSearch ==
  \A n, m \in 1 .. Len(issues) :
    (n < m /\ SamePair(issues[n], issues[m])) =>
      LET c == createdBy[m]
      IN  /\ c # 0
          /\ \/ searchData[c].status = "error"
             \/ searchedAt[c].count < n
             \/ IssueHandler(issues[m]) = Research /\ n \in searchedAt[c].closed

C1_TwoIssuesForOnePair ==
  \E n, m \in 1 .. Len(issues) :
    /\ n < m
    /\ SamePair(issues[n], issues[m])
    /\ searchData[createdBy[m]].status = "ok"
    /\ searchedAt[createdBy[m]].count < n

ZeroMatches(i) == searchData[i].status = "ok" /\ searchData[i].total_count = 0
Created(i) == issueData[i].number # 0
SameWebhook(i, j) == i # j /\ Handled(i) = Handled(j) /\ KeyOf(i) = KeyOf(j)

ReportsCreation(i) ==
  /\ Len(res[i]) = 1
  /\ res[i][1].status = 200
  /\ res[i][1].body.ok = TRUE
  /\ "skipped" \notin DOMAIN res[i][1].body
  /\ res[i][1].body.issue_number = issueData[i].number

StillInTracker(i) ==
  /\ issueData[i].number \in 1 .. Len(issues)
  /\ createdBy[issueData[i].number] = i
  /\ issues[issueData[i].number].title = ghReq[i].title
  /\ issues[issueData[i].number].labels = ghReq[i].labels

\* C2: two invocations of one handler for one ticket whose searches both found
\* nothing and whose issue creations both succeeded both answer 200 ok:true
\* without skipped, and both issues stay in the tracker: nothing detects or
\* reconciles the duplicate.
C2_DuplicateGoesUndetected ==
  \A i, j \in Inv :
    (SameWebhook(i, j) /\ ZeroMatches(i) /\ ZeroMatches(j) /\ Created(i) /\ Created(j)) =>
      /\ issueData[i].number # issueData[j].number
      /\ StillInTracker(i) /\ StillInTracker(j)
      /\ Done(i) => ReportsCreation(i)
      /\ Done(j) => ReportsCreation(j)

\* both searches were answered before either issue existed, and both
\* invocations have responded
C2_BothPassedTheCheck ==
  \E i, j \in Inv :
    /\ SameWebhook(i, j) /\ ZeroMatches(i) /\ ZeroMatches(j)
    /\ Created(i) /\ Created(j) /\ Done(i) /\ Done(j)
    /\ searchedAt[i].count < issueData[i].number /\ searchedAt[i].count < issueData[j].number
    /\ searchedAt[j].count < issueData[i].number /\ searchedAt[j].count < issueData[j].number
    /\ ReportsCreation(i) /\ ReportsCreation(j)

\* C3: an invocation whose dedup search is answered successfully with
\* total_count > 0 makes no other outbound call, creates no issue, and
\* responds 200 ok:true skipped:true with the number of the first match.
C3_SkipsOnMatch ==
  \A i \in Inv :
    (searchData[i].status = "ok" /\ searchData[i].total_count > 0) =>
      /\ Done(i)
      /\ calls[i] = << "search" >>
      /\ \A n \in 1 .. Len(createdBy) : createdBy[n] # i
      /\ Len(res[i]) = 1
      /\ res[i][1].status = 200
      /\ res[i][1].body.ok = TRUE
      /\ "skipped" \in DOMAIN res[i][1].body /\ res[i][1].body.skipped = TRUE
      /\ res[i][1].body.issue_number = searchData[i].items[1].number

C3_SkippedWithSeveralMatches ==
  \E i \in Inv :
    /\ Done(i)
    /\ searchData[i].status = "ok" /\ searchData[i].total_count = 2
    /\ searchData[i].items[1].number > searchData[i].items[2].number
    /\ res[i][1].body.issue_number = searchData[i].items[1].number

\* C4: when the issue-creation POST is answered with a non-2xx status the
\* response is 502 github_request_failed with the upstream text, and no
\* transition listing, transition POST or notification is made.
C4_CreationFailureIs502 ==
  \A i \in Inv :
    ghResp[i].status = "error" =>
      /\ Done(i)
      /\ res[i] = << [status |-> 502,
                      body |-> [error |-> "github_request_failed",
                                details |-> ghResp[i].text]] >>
      /\ calls[i] = << "search", "comments", "create" >>

C4_CreationRefused ==
  \E i \in Inv : ghResp[i].status = "error" /\ Done(i) /\ res[i][1].status = 502

SearchFailed(i) == searchData[i].status \in {"error", "throw"}
CommentsFailed(i) == commentsResp[i] \in {"error", "throw"}
TransitionFailed(i) ==
  "error" \in DOMAIN transitionResult[i] /\ transitionResult[i].error # "not_attempted"

ReachesCreation(i) ==
  /\ Len(calls[i]) >= 3
  /\ SubSeq(calls[i], 1, 3) = << "search", "comments", "create" >>

\* C5 (as stated): no failure of the dedup search, the comment fetch or the
\* transition step, status or exception, is surfaced: the handler goes on to
\* the issue creation and its response status follows from the creation alone.
C5_NoFailureSurfaced ==
  \A i \in Inv :
    (Done(i) /\ (SearchFailed(i) \/ CommentsFailed(i) \/ TransitionFailed(i))) =>
      ReachesCreation(i) /\ StatusByCreation(i)

\* C5 (amended): a non-success status of the dedup search, and any failure of
\* the comment fetch or of the transition step, is not surfaced: the handler
\* goes on to the issue creation and its response status follows from the
\* creation alone; an exception thrown by the dedup search call ends the
\* invocation with 500 internal before any further call.
C5_AbsorbedFailures ==
  \A i \in Inv :
    /\ (Done(i) /\ (searchData[i].status = "error" \/ CommentsFailed(i) \/ TransitionFailed(i))) =>
         ReachesCreation(i) /\ StatusByCreation(i)
    /\ searchData[i].status = "throw" =>
         /\ Done(i)
         /\ calls[i] = << "search" >>
         /\ res[i] = << [status |-> 500, body |-> internalError] >>

C5_AllThreeFailed ==
  \E i \in Inv :
    /\ Done(i)
    /\ searchData[i].status = "error"
    /\ commentsResp[i] = "throw"
    /\ TransitionFailed(i) /\ transitionResult[i].error = "exception"
    /\ res[i][1].status = 200

\* C6: a non-success status of the dedup search does not block: the comment
\* fetch and then the issue-creation POST follow, with the request that a
\* search without matches leads to.
C6_SearchErrorProceeds ==
  \A i \in Inv :
    searchData[i].status = "error" =>
      /\ pc[i] \notin {"idle", "search"}
      /\ Len(calls[i]) >= 2 /\ SubSeq(calls[i], 1, 2) = << "search", "comments" >>
      /\ pc[i] # "comments" =>
           /\ ReachesCreation(i)
           /\ ghReq[i] = createPayload(Handled(i), req[i].body, commentsMarkdown[i])
      /\ Done(i) => StatusByCreation(i)

\* created although another issue matches the query
C6_CreatedAfterSearchError ==
  \E i \in Inv :
    /\ searchData[i].status = "error" /\ Done(i) /\ Created(i)
    /\ SearchHits(Handled(i), KeyOf(i)) # {issueData[i].number}

\* C7: when the comment fetch fails, by status or by exception, the issue
\* body is composed with "_No comments_" as its comments section, the
\* issue-creation POST is made, and the response follows from the creation.
C7_PlaceholderOnCommentFailure ==
  \A i \in Inv :
    CommentsFailed(i) =>
      /\ commentsMarkdown[i] = "_No comments_"
      /\ includes(ghReq[i].body, "## Jira Comments\n_No comments_\n\n## Source")
      /\ ghReq[i].body = issueBody(Handled(i), req[i].body, "_No comments_")
      /\ ReachesCreation(i)
      /\ Done(i) => StatusByCreation(i)

C7_CreatedWithoutComments ==
  \E i \in Inv :
    /\ commentsResp[i] = "error" /\ Done(i) /\ Created(i)
    /\ includes(issues[issueData[i].number].body, "_No comments_")

\* the result transitionJiraIssue owes to the answers it got
ExpectedResult(i, r) ==
  CASE tResp[i].status = "error" -> r.success = FALSE /\ r.error = "fetch_transitions_failed"
    [] tResp[i].status = "throw" -> r.success = FALSE /\ r.error = "exception"
    [] tResp[i].status = "ok" /\ target[i] = NoTransition ->
         r.success = FALSE /\ r.error = "transition_not_found"
    [] tResp[i].status = "ok" /\ target[i] # NoTransition ->
         \/ r.success = TRUE /\ r.transitionName = target[i].name
         \/ r.success = FALSE /\ r.error \in {"transition_failed", "exception"}
    [] OTHER -> FALSE

\* C8: in the implementation handler, after a successful issue creation,
\* whatever the transition step comes to, the response is 200 ok:true with
\* that outcome in jira_transition.
C8_TransitionIsAdvisory ==
  \A i \in Inv :
    (Handled(i) = Implementation /\ ghResp[i].status = "ok" /\ Done(i)) =>
      /\ Len(res[i]) = 1
      /\ res[i][1].status = 200
      /\ res[i][1].body.ok = TRUE
      /\ res[i][1].body.issue_number = issueData[i].number
      /\ res[i][1].body.jira_transition = transitionResult[i]
      /\ ExpectedResult(i, res[i][1].body.jira_transition)

C8_FailedTransitionStill200 ==
  \E i \in Inv :
    /\ Handled(i) = Implementation /\ Done(i) /\ ghResp[i].status = "ok"
    /\ transitionResult[i].success = FALSE
    /\ transitionResult[i].error = "transition_failed"
    /\ res[i][1].status = 200

Fragments == {"in progress", "start progress", "begin", "start work", "working"}

\* the pairs of a transition name and a fragment that occurs in it, letter
\* case aside
Occurrences ==
  { p \in { <<t.name, f>> : t \in JiraTransitions, f \in Fragments } :
      includes(toLowerCase(p[1]), p[2]) }

NoFragmentMatches(ts) ==
  \A k \in 1 .. Len(ts) : \A f \in Fragments : <<ts[k].name, f>> \notin Occurrences

\* C9: in the implementation handler a transition listing follows every
\* successful issue creation; when it succeeds and no fragment occurs in any
\* transition name, no transition POST is made and the response is ok:true
\* with jira_transition = {success:false, error:transition_not_found,
\* available: all the names}.
C9_TransitionNotFound ==
  \A i \in Inv :
    (Handled(i) = Implementation /\ ghResp[i].status = "ok") =>
      /\ Len(calls[i]) >= 4 /\ calls[i][4] = "transitions"
      /\ (tResp[i].status = "ok" /\ NoFragmentMatches(tResp[i].transitions)) =>
           /\ \A k \in 1 .. Len(calls[i]) : calls[i][k] # "transition"
           /\ Done(i) =>
                /\ res[i][1].status = 200
                /\ res[i][1].body.ok = TRUE
                /\ res[i][1].body.jira_transition =
                     [success |-> FALSE, error |-> "transition_not_found",
                      available |-> [k \in 1 .. Len(tResp[i].transitions) |->
                                       tResp[i].transitions[k].name]]

C9_NothingToApply ==
  \E i \in Inv :
    /\ Handled(i) = Implementation /\ Done(i) /\ ghResp[i].status = "ok"
    /\ tResp[i].status = "ok" /\ Len(tResp[i].transitions) = 2
    /\ NoFragmentMatches(tResp[i].transitions)

FragmentMatches(k, ts) ==
  \E j \in 1 .. Len(ts) : <<ts[j].name, targetNames[k]>> \in Occurrences

\* C10: the transition that is applied contains the earliest fragment of the
\* list that occurs in any available transition, whatever the order of the
\* transitions.
C10_EarliestFragmentWins ==
  \A i \in Inv :
    target[i] # NoTransition =>
      LET ts == tResp[i].transitions
          first == CHOOSE k \in 1 .. Len(targetNames) :
                     /\ FragmentMatches(k, ts)
                     /\ \A j \in 1 .. (k - 1) : ~FragmentMatches(j, ts)
      IN  <<target[i].name, targetNames[first]>> \in Occurrences

\* the response owed to a successful issue creation
CreationResponse(i) ==
  IF Handled(i) = Implementation
  THEN [ok |-> TRUE, issue_number |-> issueData[i].number,
        issue_url |-> issueData[i].html_url, jira_transition |-> transitionResult[i]]
  ELSE [ok |-> TRUE, issue_number |-> issueData[i].number,
        issue_url |-> issueData[i].html_url, action |-> "research_request_created"]

\* C11: in both handlers, however the notification POST is answered (2xx,
\* non-2xx or exception), the invocation ends with the one response 200
\* ok:true carrying the number and URL of the created issue; the response
\* does not depend on the answer of the notification.
C11_NotificationFailureSwallowed ==
  \A i \in Inv :
    notifyResp[i] # "none" =>
      /\ Done(i)
      /\ ghResp[i].status = "ok"
      /\ issueData[i].number \in 1 .. Len(issues)
      /\ issueData[i].html_url = htmlUrl(req[i].body.repo, issueData[i].number)
      /\ calls[i][Len(calls[i])] = "notify"
      /\ res[i] = << [status |-> 200, body |-> CreationResponse(i)] >>

C11_NotificationThrew ==
  \E i \in Inv :
    /\ notifyResp[i] = "throw" /\ Done(i) /\ res[i][1].status = 200
    /\ Handled(i) = Research

\* the outbound calls that write to the ticket
TicketWrites == {"transition", "notify"}
TransitionCalls == {"transitions", "transition"}

\* C12: the research handler never lists or applies a transition; after a
\* successful issue creation the only call that writes to the ticket is the
\* notification comment, and the response has no jira_transition field.
C12_ResearchNeverTransitions ==
  \A i \in Inv :
    Handled(i) = Research =>
      /\ pc[i] \notin TransitionCalls
      /\ \A k \in 1 .. Len(calls[i]) : calls[i][k] \notin TransitionCalls
      /\ tResp[i] = NoListing /\ target[i] = NoTransition /\ transitionResult[i] = NoResult
      /\ Created(i) =>
           /\ calls[i] = << "search", "comments", "create", "notify" >>
           /\ { calls[i][k] : k \in 1 .. Len(calls[i]) } \cap TicketWrites = {"notify"}
           /\ Done(i) =>
                /\ res[i][1].status = 200
                /\ "jira_transition" \notin DOMAIN res[i][1].body
                /\ DOMAIN res[i][1].body = {"ok", "issue_number", "issue_url", "action"}

C12_ResearchCreated ==
  \E i \in Inv :
    /\ Handled(i) = Research /\ Created(i) /\ Done(i)
    /\ notifyResp[i] = "ok"
    /\ res[i][1].body.action = "research_request_created"

Skipped(i) ==
  /\ Done(i) /\ Len(res[i]) = 1
  /\ "skipped" \in DOMAIN res[i][1].body

\* an issue of handler h for the ticket of invocation i is in the tracker
HasIssueOf(h, i) ==
  \E n \in 1 .. Len(issues) :
    IssueHandler(issues[n]) = h /\ Mentions(issues[n], KeyOf(i))

\* an issue of the other flow: for the implementation handler an open
\* research issue, for the research handler an implementation issue
OtherFlow(issue, h) ==
  IF h = Implementation
  THEN IssueHandler(issue) = Research /\ issue.state = "open"
  ELSE IssueHandler(issue) = Implementation

\* C13: implementation issues and research issues for one ticket key are
\* tracked independently: no handler skips creation on matches that are all
\* issues of the other flow (open research issues for the implementation
\* handler, implementation issues for the research handler).
C13_TrackedIndependently ==
  \A i \in Inv :
    Skipped(i) =>
      \E k \in 1 .. Len(searchData[i].items) :
        ~OtherFlow(issues[searchData[i].items[k].number], Handled(i))

\* the half of C13 that the research query's label filter gives
C13_ResearchSkipsOnlyForResearch ==
  \A i \in Inv : (Skipped(i) /\ Handled(i) = Research) => HasIssueOf(Research, i)

Received(i) == pc[i] # "idle"
IsPost(i) == req[i].method = "POST"

\* the header is there and its value is not the configured secret
Mismatch(i) == req[i].secret.present /\ req[i].secret.value # "s3cret"

Rejected401(i) ==
  /\ Done(i)
  /\ calls[i] = << >>
  /\ res[i] = << [status |-> 401, body |-> [error |-> "invalid_secret"]] >>

\* C14 (as stated): every request with an x-webhook-secret header whose value
\* is not the configured secret is answered 401 invalid_secret.
C14_MismatchIs401 ==
  \A i \in Inv : (Received(i) /\ Mismatch(i)) => Rejected401(i)

\* C14 (amended): a POST request with a non-empty x-webhook-secret header
\* whose value is not the configured secret is answered 401 invalid_secret
\* and makes no outbound call; with another method the answer is 405; a
\* header with an empty value is treated as an absent header and is never
\* answered 401.
C14_NonEmptyMismatchIs401 ==
  \A i \in Inv :
    (Received(i) /\ Mismatch(i)) =>
      IF ~IsPost(i) THEN Done(i) /\ Len(res[i]) = 1 /\ res[i][1].status = 405
      ELSE IF req[i].secret.value = ""
      THEN \A k \in 1 .. Len(res[i]) : res[i][k].status # 401
      ELSE Rejected401(i)

C14_WrongSecretRejected ==
  \E i \in Inv :
    /\ IsPost(i) /\ req[i].secret = Hdr("wrong") /\ req[i].body = ValidBody("AB-1")
    /\ Rejected401(i)

Missing(i) ==
  \E f \in {"issueKey", "summary", "repo"} :
    f \notin DOMAIN req[i].body \/ req[i].body[f] = ""

Rejected400(i) ==
  /\ Done(i)
  /\ calls[i] = << >>
  /\ res[i] = << [status |-> 400,
                  body |-> [error |-> "missing_fields",
                            required |-> << "issueKey", "summary", "repo" >>]] >>

\* C16 (as stated): every request whose body lacks issueKey, summary or repo
\* (absent or empty) is answered 400 missing_fields with required =
\* [issueKey, summary, repo].
C16_MissingFieldsIs400 ==
  \A i \in Inv : (Received(i) /\ Missing(i)) => Rejected400(i)

\* C16 (amended): a POST request that passes the secret check (no header, an
\* empty header or the configured secret) and whose body lacks issueKey,
\* summary or repo (absent or empty) is answered 400 missing_fields with
\* required = [issueKey, summary, repo] and makes no outbound call; the
\* method check (405) and the secret check (401) come first.
C16_MissingFieldsAfterChecks ==
  \A i \in Inv :
    (Received(i) /\ Missing(i)) =>
      IF ~IsPost(i) THEN Done(i) /\ Len(res[i]) = 1 /\ res[i][1].status = 405
      ELSE IF Mismatch(i) /\ req[i].secret.value # "" THEN Rejected401(i)
      ELSE Rejected400(i)

C16_OnlyRepoMissing ==
  \E i \in Inv :
    /\ IsPost(i) /\ req[i].secret = NoHeader
    /\ DOMAIN req[i].body = {"issueKey", "summary", "description"}
    /\ req[i].body.issueKey # "" /\ req[i].body.summary # ""
    /\ Rejected400(i)

\* C17: every request whose method is not POST is answered 405, whatever its
\* headers and body, and makes no outbound call.
C17_NonPostIs405 ==
  \A i \in Inv :
    (Received(i) /\ ~IsPost(i)) =>
      /\ Done(i)
      /\ calls[i] = << >>
      /\ res[i] = << [status |-> 405, body |-> [text |-> "Method Not Allowed"]] >>

C17_ValidGetRefused ==
  \E i \in Inv :
    /\ req[i].method = "GET" /\ req[i].secret = Hdr("s3cret") /\ ~Missing(i)
    /\ Done(i) /\ res[i][1].status = 405

\* The outbound calls and the responses of an admitted invocation as
\* functions of its handler, its body and the answers it has received so
\* far; the header of the request is no argument of either.
AnswersSoFar(i) ==
  [search |-> searchData[i], comments |-> commentsResp[i], create |-> ghResp[i],
   issue |-> issueData[i], listing |-> tResp[i], result |-> transitionResult[i],
   notify |-> notifyResp[i]]

CallsAfterCreate(h, a) ==
  IF h = Research THEN << "notify" >>
  ELSE << "transitions" >> \o
       (IF a.listing.status = "none" THEN << >>
        ELSE IF a.listing.status = "ok" /\ ~NoFragmentMatches(a.listing.transitions)
        THEN << "transition" >> \o (IF a.result = NoResult THEN << >> ELSE << "notify" >>)
        ELSE << "notify" >>)

CallsFor(h, b, a) ==
  IF \E f \in {"issueKey", "summary", "repo"} : f \notin DOMAIN b \/ b[f] = ""
  THEN << >>
  ELSE << "search" >> \o
       (IF a.search.status \in {"none", "throw"} THEN << >>
        ELSE IF a.search.status = "ok" /\ a.search.total_count > 0 THEN << >>
        ELSE << "comments" >> \o
             (IF a.comments = "none" THEN << >>
              ELSE << "create" >> \o
                   (IF a.create.status = "ok" THEN CallsAfterCreate(h, a) ELSE << >>)))

ResponsesFor(h, b, a) ==
  IF \E f \in {"issueKey", "summary", "repo"} : f \notin DOMAIN b \/ b[f] = ""
  THEN << [status |-> 400,
           body |-> [error |-> "missing_fields",
                     required |-> << "issueKey", "summary", "repo" >>]] >>
  ELSE IF a.search.status = "none" THEN << >>
  ELSE IF a.search.status = "throw"
  THEN << [status |-> 500, body |-> [error |-> "internal",
                                     message |-> "FetchError: request failed"]] >>
  ELSE IF a.search.status = "ok" /\ a.search.total_count > 0
  THEN << [status |-> 200,
           body |-> [ok |-> TRUE, skipped |-> TRUE,
                     reason |-> IF h = Research THEN "research_request_exists"
                                ELSE "issue_exists",
                     issue_number |-> a.search.items[1].number]] >>
  ELSE IF a.create.status = "none" THEN << >>
  ELSE IF a.create.status = "throw"
  THEN << [status |-> 500, body |-> [error |-> "internal",
                                     message |-> "FetchError: request failed"]] >>
  ELSE IF a.create.status = "error"
  THEN << [status |-> 502, body |-> [error |-> "github_request_failed",
                                     details |-> a.create.text]] >>
  ELSE IF a.notify = "none" THEN << >>
  ELSE IF h = Research
  THEN << [status |-> 200,
           body |-> [ok |-> TRUE, issue_number |-> a.issue.number,
                     issue_url |-> a.issue.html_url,
                     action |-> "research_request_created"]] >>
  ELSE << [status |-> 200,
           body |-> [ok |-> TRUE, issue_number |-> a.issue.number,
                     issue_url |-> a.issue.html_url, jira_transition |-> a.result]] >>

NoSecretHeader(i) == Received(i) /\ IsPost(i) /\ req[i].secret = NoHeader
CorrectSecret(i) == Received(i) /\ IsPost(i) /\ req[i].secret = Hdr("s3cret")

\* C15: a POST request without the x-webhook-secret header is never answered
\* 401, and its outbound calls and its response are those that the same
\* handler, body and answers of the services give for the request with the
\* correct secret: both are the same function of handler, body and answers.
C15_MissingHeaderAsValid ==
  \A i \in Inv :
    /\ NoSecretHeader(i) => \A k \in 1 .. Len(res[i]) : res[i][k].status # 401
    /\ (NoSecretHeader(i) \/ CorrectSecret(i)) =>
         /\ calls[i] = CallsFor(Handled(i), req[i].body, AnswersSoFar(i))
         /\ res[i] = ResponsesFor(Handled(i), req[i].body, AnswersSoFar(i))
         /\ ghReq[i] = IF Len(calls[i]) >= 3
                       THEN createPayload(Handled(i), req[i].body, commentsMarkdown[i])
                       ELSE NoPayload

C15_CreatedWithoutHeader ==
  \E i \in Inv :
    /\ NoSecretHeader(i) /\ Done(i) /\ Created(i)
    /\ Len(calls[i]) = 6
    /\ res[i][1].status = 200

CallOrder == << "search", "comments", "create", "transitions", "transition", "notify" >>
Rank(op) == CHOOSE k \in 1 .. Len(CallOrder) : CallOrder[k] = op

\* the answer of the call op of invocation i has arrived
Answered(i, op) ==
  CASE op = "search"      -> searchData[i].status # "none"
    [] op = "comments"    -> commentsResp[i] # "none"
    [] op = "create"      -> ghResp[i].status # "none"
    [] op = "transitions" -> tResp[i].status # "none"
    [] op = "transition"  -> transitionResult[i] # NoResult
    [] op = "notify"      -> notifyResp[i] # "none"

InFlight(i) == { k \in 1 .. Len(calls[i]) : ~Answered(i, calls[i][k]) }

\* C18: the outbound calls of an invocation of the implementation handler
\* follow the order search, comments, create, transitions, transition,
\* notify (the first three without a gap, the listing right after the
\* creation, the transition POST only right after the listing); a call is
\* made only when every earlier one has been answered, so at most one call,
\* the last, is in flight.
C18_CallsInOrder ==
  \A i \in Inv :
    Handled(i) = Implementation =>
      /\ \A k \in 1 .. Len(calls[i]) : calls[i][k] \in { CallOrder[j] : j \in 1 .. Len(CallOrder) }
      /\ \A k \in 1 .. (Len(calls[i]) - 1) : Rank(calls[i][k]) < Rank(calls[i][k + 1])
      /\ \A k \in 1 .. Len(calls[i]) :
           /\ k <= 4 => calls[i][k] = CallOrder[k]
           /\ calls[i][k] = "transition" => k = 5
      /\ Cardinality(InFlight(i)) <= 1
      /\ InFlight(i) = IF Done(i) \/ ~Received(i) THEN {} ELSE {Len(calls[i])}
      /\ (Received(i) /\ ~Done(i)) => pc[i] = calls[i][Len(calls[i])]

C18_AllSixCalls ==
  \E i \in Inv :
    /\ Handled(i) = Implementation /\ Done(i)
    /\ calls[i] = CallOrder

\* a call outside the absorbing steps rejected, or the body of its answer
\* could not be read
Threw(i) == searchData[i].status = "throw" \/ ghResp[i].status = "throw"

\* C19: an exception of the dedup search call or of the issue-creation call
\* (the fetch or the reading of the answer) ends the invocation with the one
\* response 500 {error: internal, message: a string}, and the throwing call
\* is its last outbound call; the failures of the absorbing steps (comment
\* fetch, transition, notification) never give a 500.
C19_ExceptionIs500 ==
  \A i \in Inv :
    /\ Threw(i) =>
         /\ Done(i)
         /\ Len(res[i]) = 1
         /\ res[i][1].status = 500
         /\ DOMAIN res[i][1].body = {"error", "message"}
         /\ res[i][1].body.error = "internal"
         /\ res[i][1].body.message \in STRING
         /\ calls[i] = IF searchData[i].status = "throw" THEN << "search" >>
                       ELSE << "search", "comments", "create" >>
    /\ \A k \in 1 .. Len(res[i]) : res[i][k].status = 500 => Threw(i)

\* the issue was created and the answer of the POST was lost
C19_ThrewAfterCreation ==
  \E i \in Inv :
    /\ ghResp[i].status = "throw" /\ Done(i) /\ res[i][1].status = 500
    /\ commentsResp[i] = "throw"
    /\ \E n \in 1 .. Len(issues) : createdBy[n] = i

Statuses == {405, 401, 400, 200, 502, 500}

\* an invocation has sent no response while it runs and one when it is over
OneResponse(i) ==
  /\ Len(res[i]) = IF Done(i) THEN 1 ELSE 0
  /\ \A k \in 1 .. Len(res[i]) : res[i][k].status \in Statuses

\* C20: when every outbound call eventually returns or throws, every
\* invocation that has received its request eventually terminates, and it
\* sends exactly one response, with status 405, 401, 400, 200, 502 or 500:
\* none while it runs, one when it is over, never a second.
C20_TerminatesWithOneResponse ==
  /\ [](\A i \in Inv : OneResponse(i))
  /\ \A i \in Inv : Received(i) ~> (Done(i) /\ Len(res[i]) = 1)

C20_RanToTheEnd ==
  \E i \in Inv :
    /\ Done(i) /\ Len(res[i]) = 1 /\ res[i][1].status = 200
    /\ Len(calls[i]) = 6 /\ notifyResp[i] = "error"

MadeCall(i, op) == \E k \in 1 .. Len(calls[i]) : calls[i][k] = op

\* C21: the issue-creation POST of the implementation handler carries exactly
\* the labels from-jira and ai-task, that of the research handler exactly
\* from-jira and ai-research, and so do the issues they create: no issue of
\* one handler has the label of the other.
C21_FixedLabels ==
  /\ \A i \in Inv :
       MadeCall(i, "create") =>
         /\ Handled(i) = Implementation => ghReq[i].labels = {"from-jira", "ai-task"}
         /\ Handled(i) = Research => ghReq[i].labels = {"from-jira", "ai-research"}
  /\ \A n \in 1 .. Len(issues) :
       createdBy[n] # 0 =>
         /\ Handled(createdBy[n]) = Implementation =>
              issues[n].labels = {"from-jira", "ai-task"}
         /\ Handled(createdBy[n]) = Research =>
              issues[n].labels = {"from-jira", "ai-research"}

C21_ResearchIssueLabelled ==
  \E n \in 1 .. Len(issues) :
    /\ createdBy[n] # 0
    /\ Handled(createdBy[n]) = Research
    /\ "ai-research" \in issues[n].labels /\ "ai-task" \notin issues[n].labels

\* the preview that a comment body calls for
PreviewOf(body) ==
  IF Len(body) <= 1000 THEN body ELSE SubSeq(body, 1, 1000) \o "~"

\* C22: the preview of a comment body is the body itself when it has at most
\* 1000 characters, and otherwise its first 1000 characters followed by one
\* ellipsis character; the rendered comment line ends with it.
C22_PreviewExact ==
  \A i \in Inv :
    (commentsResp[i] = "ok" /\ Len(commentsData[i]) = 1
       /\ commentsData[i][1].renderedBody = "") =>
      LET body == commentsData[i][1].body
      IN  /\ commentsMarkdown[i] = "- Ann (2024-05-01):\n  " \o PreviewOf(body)
          /\ Len(body) <= 1000 => Len(commentsMarkdown[i]) = 22 + Len(body)
          /\ Len(body) > 1000 => Len(commentsMarkdown[i]) = 22 + 1001

\* a body of 1001 characters whose 1000th is the 1000th of the filler
C22_CutAtTheLimit ==
  \E i \in Inv :
    /\ Done(i) /\ Created(i)
    /\ Len(commentsData[i]) = 1 /\ Len(commentsData[i][1].body) = 1001
    /\ Len(commentsMarkdown[i]) = 1023
    /\ SubSeq(commentsMarkdown[i], 1021, 1023) = "ij~"

HasSeparator(s) == \E k \in 1 .. (Len(s) - 1) : SubSeq(s, k, k + 1) = ": "

\* the two parts of s around its first ": " (s alone when there is none)
SplitFirst(s) ==
  IF HasSeparator(s)
  THEN LET k == CHOOSE j \in 1 .. (Len(s) - 1) :
                  /\ SubSeq(s, j, j + 1) = ": "
                  /\ \A m \in 1 .. (j - 1) : SubSeq(s, m, m + 1) # ": "
       IN  << SubSeq(s, 1, k - 1), SubSeq(s, k + 2, Len(s)) >>
  ELSE << s >>

\* the issues of the tracker with the invocation that created them
CreatedIssues == { n \in 1 .. Len(issues) : createdBy[n] # 0 }
CreatorKey(n) == req[createdBy[n]].body.issueKey
CreatorSummary(n) == req[createdBy[n]].body.summary

\* C23 (as stated): splitting the title of a created issue on its first ": "
\* recovers the ticket key and the summary of the request.
C23_TitleRoundTrip ==
  \A n \in CreatedIssues :
    SplitFirst(issues[n].title) = << CreatorKey(n), CreatorSummary(n) >>

\* C23 (amended): when the ticket key holds no ": ", splitting the title on
\* its first ": " gives the key and, in the implementation handler, the
\* summary, in the research handler "[AI Research] " followed by the
\* summary, whatever the summary holds; when the key holds ": " the split
\* falls inside the key and gives the part of the key before it.
C23_TitleSplit ==
  \A n \in CreatedIssues :
    LET parts == SplitFirst(issues[n].title)
        h == Handled(createdBy[n])
    IN  /\ Len(parts) = 2
        /\ IF HasSeparator(CreatorKey(n))
           THEN /\ parts[1] = SplitFirst(CreatorKey(n))[1]
                /\ parts[1] # CreatorKey(n)
           ELSE /\ parts[1] = CreatorKey(n)
                /\ h = Implementation => parts[2] = CreatorSummary(n)
                /\ h = Research => parts[2] = "[AI Research] " \o CreatorSummary(n)

C23_ColonInSummary ==
  \E n \in CreatedIssues :
    /\ Handled(createdBy[n]) = Implementation
    /\ CreatorKey(n) = "AB:" /\ CreatorSummary(n) = "a: b: c"
    /\ SplitFirst(issues[n].title) = << "AB:", "a: b: c" >>

Attempts(i, op) == Cardinality({ k \in 1 .. Len(calls[i]) : calls[i][k] = op })

\* C24: within one invocation each outbound operation (dedup search, comment
\* fetch, issue-creation POST, transition listing, transition POST,
\* notification POST) is attempted at most once, also when it failed.
C24_AtMostOnceEach ==
  \A i \in Inv :
    /\ \A op \in { CallOrder[j] : j \in 1 .. Len(CallOrder) } : Attempts(i, op) <= 1
    /\ Len(calls[i]) <= Len(CallOrder)

\* every call that can fail without ending the invocation failed, once
C24_FailedAndWentOn ==
  \E i \in Inv :
    /\ Done(i)
    /\ searchData[i].status = "error" /\ commentsResp[i] = "error"
    /\ tResp[i].status = "ok" /\ transitionResult[i].success = FALSE
    /\ Attempts(i, "transition") = 1
    /\ notifyResp[i] = "error"
    /\ Len(calls[i]) = 6

ImplementationCreated(i) == Handled(i) = Implementation /\ ghResp[i].status = "ok"
TransitionStepOver(i) == transitionResult[i] # NoResult

\* the notification of invocation i is sent when, and only when, its
\* transition step is over, once, as its last call
NotifiedOnceAfterTransition(i) ==
  /\ Attempts(i, "notify") = IF TransitionStepOver(i) THEN 1 ELSE 0
  /\ Attempts(i, "notify") = 1 =>
       /\ calls[i][Len(calls[i])] = "notify"
       /\ MadeCall(i, "transitions")
  /\ Done(i) => Attempts(i, "notify") = 1

\* C25: in the implementation handler, after a successful issue creation the
\* notification POST is not sent while the transition step runs, is sent
\* once when that step is over, whatever its result, and is eventually sent
\* when every call returns.
C25_NotifiedAfterTransition ==
  /\ [](\A i \in Inv : ImplementationCreated(i) => NotifiedOnceAfterTransition(i))
  /\ \A i \in Inv :
       ImplementationCreated(i) ~> (Attempts(i, "notify") = 1 /\ notifyResp[i] # "none")

C25_NotifiedAfterFailedTransition ==
  \E i \in Inv :
    /\ ImplementationCreated(i) /\ pc[i] = "notify"
    /\ transitionResult[i].success = FALSE
    /\ transitionResult[i].error = "fetch_transitions_failed"
    /\ calls[i] = << "search", "comments", "create", "transitions", "notify" >>

\* invocation j, for the webhook of invocation i, got a successful search
\* answer in which issue n, created by i and open, was to be found
SearchedAfter(j, i, n) ==
  /\ SameWebhook(i, j)
  /\ n \in CreatedIssues /\ createdBy[n] = i
  /\ searchData[j].status = "ok"
  /\ searchedAt[j].count >= n
  /\ n \notin searchedAt[j].closed

\* C26: an invocation whose successful dedup search reflects the open issue
\* that an earlier invocation of the same handler created for the same key
\* creates nothing and responds 200 skipped:true with the number of a
\* matching issue, that issue's when it is the only match.
C26_LaterOnesSkip ==
  \A i, j \in Inv : \A n \in 1 .. Len(issues) :
    SearchedAfter(j, i, n) =>
      /\ Done(j)
      /\ calls[j] = << "search" >>
      /\ \A m \in 1 .. Len(issues) : createdBy[m] # j
      /\ \E k \in 1 .. Len(searchData[j].items) : searchData[j].items[k].number = n
      /\ res[j] = << [status |-> 200,
                      body |-> [ok |-> TRUE, skipped |-> TRUE,
                                reason |-> IF Handled(j) = Research
                                           THEN "research_request_exists"
                                           ELSE "issue_exists",
                                issue_number |-> searchData[j].items[1].number]] >>
      /\ searchData[j].total_count = 1 => res[j][1].body.issue_number = n

\* the first invocation was over, with its issue created, when the search
\* of the second was answered
C26_SecondSkipped ==
  \E i, j \in Inv :
    /\ Done(i) /\ Created(i) /\ res[i][1].status = 200
    /\ SearchedAfter(j, i, issueData[i].number)
    /\ Done(j) /\ res[j][1].body.issue_number = issueData[i].number
    /\ Len(issues) = 1

\* the issues that were in the tracker when the search of i was answered
SeenBy(i) == 1 .. searchedAt[i].count

OpenResearchFor(i) ==
  { n \in SeenBy(i) :
      /\ Mentions(issues[n], KeyOf(i))
      /\ "ai-research" \in issues[n].labels
      /\ n \notin searchedAt[i].closed }

ClosedFor(i) ==
  { n \in SeenBy(i) : Mentions(issues[n], KeyOf(i)) /\ n \in searchedAt[i].closed }

Found(i) == { searchData[i].items[k].number : k \in 1 .. Len(searchData[i].items) }

\* C27: a successful search of the research handler finds exactly the open
\* issues labelled ai-research that mention the key, so with the earlier
\* research issues for the key all closed it finds nothing and the handler
\* goes on to create another; a successful search of the implementation
\* handler finds closed issues mentioning the key too, and the handler skips.
C27_StateFilterOnlyInResearch ==
  \A i \in Inv :
    searchData[i].status = "ok" =>
      /\ Handled(i) = Research =>
           /\ Found(i) = OpenResearchFor(i)
           /\ OpenResearchFor(i) = {} =>
                /\ ~Skipped(i)
                /\ MadeCall(i, "comments")
                /\ ghResp[i].status = "ok" =>
                     /\ Created(i)
                     /\ issueData[i].number \notin SeenBy(i)
                     /\ issues[issueData[i].number].title =
                          KeyOf(i) \o ": [AI Research] " \o req[i].body.summary
      /\ Handled(i) = Implementation =>
           /\ ClosedFor(i) \subseteq Found(i)
           /\ ClosedFor(i) # {} => Skipped(i) /\ calls[i] = << "search" >>

\* a second research issue for the key of a closed one
C27_SecondAfterClose ==
  \E i \in Inv : \E n \in 1 .. Len(issues) :
    /\ Handled(i) = Research /\ Done(i) /\ Created(i)
    /\ n \in ClosedFor(i) /\ "ai-research" \in issues[n].labels
    /\ issues[issueData[i].number].title = issues[n].title

WrongMethod(i) == req[i].method # "POST"
WrongSecret(i) ==
  req[i].secret.present /\ req[i].secret.value # "" /\ req[i].secret.value # "s3cret"

\* the status of the earliest check that the request of i fails
EarliestFailure(i) ==
  IF WrongMethod(i) THEN 405
  ELSE IF WrongSecret(i) THEN 401
  ELSE IF Missing(i) THEN 400
  ELSE 0

\* invocation i has made no call, received no answer and created no issue
NoEffect(i) ==
  /\ calls[i] = << >>
  /\ searchData[i] = NoSearch /\ commentsResp[i] = "none" /\ ghReq[i] = NoPayload
  /\ ghResp[i] = NoAnswer /\ tResp[i] = NoListing /\ notifyResp[i] = "none"
  /\ \A n \in 1 .. Len(issues) : createdBy[n] # i

\* C28: a request is answered by the earliest check it fails, in the order
\* method (405), secret (401), required fields (400); a rejected invocation
\* is over with that one response, has made no outbound call and has created
\* no issue; a request that passes the three checks gets none of the three.
C28_ValidationOrder ==
  \A i \in Inv :
    Received(i) =>
      IF EarliestFailure(i) # 0
      THEN /\ Done(i)
           /\ Len(res[i]) = 1
           /\ res[i][1].status = EarliestFailure(i)
           /\ NoEffect(i)
      ELSE /\ \A k \in 1 .. Len(res[i]) : res[i][k].status \notin {405, 401, 400}
           /\ MadeCall(i, "search")

\* a request that fails the three checks
C28_FailsAllThree ==
  \E i \in Inv :
    /\ WrongMethod(i) /\ WrongSecret(i) /\ Missing(i)
    /\ DOMAIN req[i].body = {}
    /\ res[i] = << [status |-> 405, body |-> [text |-> "Method Not Allowed"]] >>
    /\ Len(issues) = 1

====
